---------------------------- MODULE Spec2Model ----------------------------
(***************************************************************************)
(* Leader election of the simulated cluster: the per-node election state   *)
(* machine (src/src/node.py), the cluster transport with its partition     *)
(* filter and the fault-injection operations (src/src/cluster.py).         *)
(*                                                                         *)
(* Threads.  Every node runs Node.run on a thread of its own, the          *)
(* transport runs Cluster.process_messages on one pump thread, and the     *)
(* fault operations run on the caller's (user interface) thread.  Nothing  *)
(* in the source synchronises them.  A message handler, a heartbeat batch  *)
(* and a fault operation are one step each; Node.start_election is two     *)
(* steps, split inside its read-modify-write of current_term, and the      *)
(* pump's copy-and-clear of the buffer is two steps.                       *)
(*                                                                         *)
(* Time.  timed_out[n] abstracts                                           *)
(*     time.time() - last_heartbeat > election_timeout                     *)
(* of node n: an assignment last_heartbeat = time.time() makes it FALSE,   *)
(* Node.restore makes it TRUE, and time may pass at any moment.  A         *)
(* heartbeat that reaches n later than last_heartbeat starts a timeout of  *)
(* its own (hb_fresh), which elapses after the node's.                     *)
(***************************************************************************)
EXTENDS Integers, Sequences, FiniteSets, TLC

\* ------------------------------------------------------------------ bounds
NodeCount == 3
MaxElections == 3
MaxHeartbeats == 1
MaxFaults == 2
MaxFaultElections == 2
MaxPartitionOps == 2
MaxPartitionElections == 2
MaxThreads == 2
MaxDirectCalls == 3
MaxDirectTerm == 2
MaxLiveElections == 3
MaxRejoinElections == 3
SplitNodeCount == 4
MaxSplitElections == 2
MaxSplitOps == 1
MaxObserverElections == 2
MaxRestartElections == 2
OrderNodeCount == 2
MaxOrderElections == 2
MaxSizesElections == 2

None == -1

\* NodeState
FOLLOWER == "FOLLOWER"
CANDIDATE == "CANDIDATE"
LEADER == "LEADER"

\* ------------------------------------------------------------------- state
VARIABLES
    state,            \* Node.state
    current_term,     \* Node.current_term
    voted_for,        \* Node.voted_for (None = -1)
    votes_received,   \* Node.votes_received
    running,          \* Node.running
    timed_out,        \* time.time() - last_heartbeat > election_timeout
    message_queue,    \* Node.message_queue, as the set of dicts appended to it
    thread,           \* the live Node.run threads of each node: pc and the
                      \* term read by current_term += 1
    message_buffer,   \* Cluster.message_buffer
    current_messages, \* the batch Cluster.process_messages is draining
    pump_pc,          \* where the pump thread is in process_messages
    partitioned,      \* Cluster.partitioned
    partition_groups, \* Cluster.partition_groups
    events,           \* what the cluster's observers were told by the last step
    pumped,           \* the dict the last step took from current_messages or
                      \* passed to Node.receive_message, NoMsg when there
                      \* was none
    budget,           \* how often each capped operation may still run
    led,              \* history: <<n, t>> once n was LEADER with current_term t
    voted,            \* history: voted[n] holds <<t, c>> once n voted for c in t
    granted,          \* history: granted[n] holds <<v, t>> once n received a
                      \* granted vote_response of term t from v
    hb_fresh,         \* history: hb_fresh[n] is the last heartbeat that
                      \* reached n after last_heartbeat was last assigned
                      \* and before the election timeout had elapsed, NoMsg
                      \* once an election timeout has elapsed since it did
    node_count,       \* Cluster.node_count, Node.nodes_count
    raises,           \* the notifications, as <<kind, state>>, on which the
                      \* subscriber registered first with the cluster raises
    drew,             \* the nodes whose election_timeout the last step drew
                      \* anew (Node.reset_election_timeout)
    fault_call,       \* the call of fail_node or restore_node the last step
                      \* made, NoCall when it made none
    deposed,          \* history: deposed[n] tells whether n was failed as
                      \* LEADER, and restored after another node had become
                      \* LEADER, with no call of fail_node since
    adopted,          \* history: adopted[n] holds t once n took the term t
                      \* from a message or from Node.restore
    begun_under,      \* history: begun_under[n] holds once n began an
                      \* election as a node of no group, or of a group of at
                      \* most half the nodes, of the partition in effect
    journal           \* history, kept by the steps that send and deliver
                      \* one dict at a time: the dicts in the order the
                      \* nodes sent them (sent) and in the order the pump
                      \* delivered them (delivered)

nodeVars ==
    <<state, current_term, voted_for, votes_received, running, timed_out,
      message_queue>>
netVars == <<message_buffer, current_messages, pump_pc, partitioned, partition_groups>>
histVars == <<led, voted, granted, hb_fresh>>
confVars == <<node_count, raises>>
logVars == <<deposed, adopted, begun_under>>
vars ==
    <<nodeVars, thread, netVars, events, pumped, budget, histVars, confVars,
      drew, fault_call, logVars, journal>>

\* The node ids: range(node_count)
Nodes == 0 .. (node_count - 1)

\* ---------------------------------------------------------------- messages
\* A message dict.  vote_granted (the payload of a vote_response) and success
\* (the payload of an append_entries_response) are FALSE where the dict has
\* no such key; "entries" is always the empty list and is left out.
Msg(type, from, to, term, vote_granted, success) ==
    [type |-> type, from |-> from, to |-> to, term |-> term,
     vote_granted |-> vote_granted, success |-> success]

NoMsg == Msg("", None, None, 0, FALSE, FALSE)

\* One notification of the cluster's observers.
Event(kind, node, st, term, msg) ==
    [kind |-> kind, node |-> node, state |-> st, term |-> term, msg |-> msg]

StateChange(n, st, term) == Event("state_change", n, st, term, NoMsg)
MessageSent(m) == Event("message_sent", m.from, "", m.term, m)
MessageDelivered(m) == Event("message_delivered", m.to, "", m.term, m)

\* A call of fail_node or restore_node
FaultCall(op, node_id) == [op |-> op, node_id |-> node_id]

NoCall == FaultCall("", None)

\* What the history knows of a node: status "failed" with the leaders seen
\* until the failure, status "rejoined", or neither
Deposed(status, leaders) == [status |-> status, led |-> leaders]

NotDeposed == Deposed("", {})

\* The other node ids in increasing order: for i in range(nodes_count), i != id
RECURSIVE PeersFrom(_, _)
PeersFrom(n, i) ==
    IF i >= node_count THEN <<>>
    ELSE IF i = n THEN PeersFrom(n, i + 1)
    ELSE <<i>> \o PeersFrom(n, i + 1)

Peers(n) == PeersFrom(n, 0)

\* Node.request_votes: one request_vote per peer, in id order.  The dict put
\* on the node's own message_queue and the dict handed to the observers
\* carry the same type.
request_votes(n, term) ==
    [k \in 1 .. Len(Peers(n)) |->
        Msg("request_vote", n, Peers(n)[k], term, FALSE, FALSE)]

\* Node.send_heartbeats, the dicts appended to the node's own message_queue:
\* type "append_entries"
heartbeat_entries(n, term) ==
    [k \in 1 .. Len(Peers(n)) |->
        Msg("append_entries", n, Peers(n)[k], term, FALSE, FALSE)]

\* Node.send_heartbeats, the dicts handed to the observers with
\* "message_sent": type "heartbeat"
send_heartbeats(n, term) ==
    [k \in 1 .. Len(Peers(n)) |->
        Msg("heartbeat", n, Peers(n)[k], term, FALSE, FALSE)]

\* The observers' view of a run of message_sent notifications
SentEvents(msgs) == [k \in 1 .. Len(msgs) |-> MessageSent(msgs[k])]

\* Elements of a sequence
Range(s) == {s[k] : k \in 1 .. Len(s)}

\* ---------------------------------------------------------------- handlers
\* What a handler does to its node: the node's fields afterwards, whether it
\* assigned last_heartbeat = time.time() (reset), the dicts it appended to
\* the node's own message_queue (local), the dicts it handed to the
\* observers with "message_sent" (out), all its notifications in order
\* (ev), and the vote it cast, if any (cast: None or the candidate).
Outcome(st, term, vf, vr, reset, local, out, ev, cast) ==
    [state |-> st, current_term |-> term, voted_for |-> vf,
     votes_received |-> vr, reset |-> reset, local |-> local, out |-> out,
     ev |-> ev, cast |-> cast]

Ignored(n) ==
    Outcome(state[n], current_term[n], voted_for[n], votes_received[n],
            FALSE, <<>>, <<>>, <<>>, None)

\* Node.handle_vote_request with "self.voted_for == candidate_id" left out of
\* the test: a vote is granted only by a node that has not voted
handle_vote_request_once(n, message) ==
    LET term == message.term
        candidate_id == message.from
        adopt == term > current_term[n]
        term1 == IF adopt THEN term ELSE current_term[n]
        state1 == IF adopt THEN FOLLOWER ELSE state[n]
        voted1 == IF adopt THEN None ELSE voted_for[n]
        grant_vote == term >= term1 /\ voted1 = None
        reply == Msg("vote_response", n, candidate_id, term1, grant_vote, FALSE)
    IN  Outcome(state1, term1,
                IF grant_vote THEN candidate_id ELSE voted1,
                votes_received[n],
                grant_vote,
                <<reply>>, <<reply>>,
                (IF adopt THEN <<StateChange(n, state1, term1)>> ELSE <<>>)
                    \o <<MessageSent(reply)>>,
                IF grant_vote THEN candidate_id ELSE None)

\* Node.handle_vote_request with "self.last_heartbeat = time.time()" moved
\* out of the "if": the election timeout is reset on a refusal too
handle_vote_request_resets(n, message) ==
    LET term == message.term
        candidate_id == message.from
        adopt == term > current_term[n]
        term1 == IF adopt THEN term ELSE current_term[n]
        state1 == IF adopt THEN FOLLOWER ELSE state[n]
        voted1 == IF adopt THEN None ELSE voted_for[n]
        grant_vote == term >= term1 /\ (voted1 = None \/ voted1 = candidate_id)
        reply == Msg("vote_response", n, candidate_id, term1, grant_vote, FALSE)
    IN  Outcome(state1, term1,
                IF grant_vote THEN candidate_id ELSE voted1,
                votes_received[n],
                TRUE,
                <<reply>>, <<reply>>,
                (IF adopt THEN <<StateChange(n, state1, term1)>> ELSE <<>>)
                    \o <<MessageSent(reply)>>,
                IF grant_vote THEN candidate_id ELSE None)

\* Node.handle_vote_request
handle_vote_request(n, message) ==
    LET term == message.term
        candidate_id == message.from
        adopt == term > current_term[n]
        term1 == IF adopt THEN term ELSE current_term[n]
        state1 == IF adopt THEN FOLLOWER ELSE state[n]
        voted1 == IF adopt THEN None ELSE voted_for[n]
        grant_vote == term >= term1 /\ (voted1 = None \/ voted1 = candidate_id)
        reply == Msg("vote_response", n, candidate_id, term1, grant_vote, FALSE)
    IN  Outcome(state1, term1,
                IF grant_vote THEN candidate_id ELSE voted1,
                votes_received[n],
                grant_vote,
                <<reply>>, <<reply>>,
                (IF adopt THEN <<StateChange(n, state1, term1)>> ELSE <<>>)
                    \o <<MessageSent(reply)>>,
                IF grant_vote THEN candidate_id ELSE None)

\* votes_received > nodes_count / 2, a float division in the source
IsMajority(votes) == 2 * votes > node_count

\* Node.handle_vote_response without "if self.state != NodeState.CANDIDATE:
\* return": a node of any role adopts the term and counts the vote
handle_vote_response_any_role(n, message) ==
    LET term == message.term
        votes1 == votes_received[n] + 1
    IN  IF term > current_term[n]
        THEN Outcome(FOLLOWER, term, None, votes_received[n], FALSE, <<>>, <<>>,
                     <<StateChange(n, FOLLOWER, term)>>, None)
        ELSE IF message.vote_granted /\ term = current_term[n]
        THEN IF IsMajority(votes1)
             THEN Outcome(LEADER, current_term[n], voted_for[n], votes1, FALSE,
                          heartbeat_entries(n, current_term[n]),
                          send_heartbeats(n, current_term[n]),
                          <<StateChange(n, LEADER, current_term[n])>>
                              \o SentEvents(send_heartbeats(n, current_term[n])),
                          None)
             ELSE Outcome(state[n], current_term[n], voted_for[n], votes1, FALSE,
                          <<>>, <<>>, <<>>, None)
        ELSE Ignored(n)

\* Node.handle_vote_response
handle_vote_response(n, message) ==
    LET term == message.term
        votes1 == votes_received[n] + 1
    IN  IF state[n] # CANDIDATE THEN Ignored(n)
        ELSE IF term > current_term[n]
        THEN Outcome(FOLLOWER, term, None, votes_received[n], FALSE, <<>>, <<>>,
                     <<StateChange(n, FOLLOWER, term)>>, None)
        ELSE IF message.vote_granted /\ term = current_term[n]
        THEN IF IsMajority(votes1)
             THEN Outcome(LEADER, current_term[n], voted_for[n], votes1, FALSE,
                          heartbeat_entries(n, current_term[n]),
                          send_heartbeats(n, current_term[n]),
                          <<StateChange(n, LEADER, current_term[n])>>
                              \o SentEvents(send_heartbeats(n, current_term[n])),
                          None)
             ELSE Outcome(state[n], current_term[n], voted_for[n], votes1, FALSE,
                          <<>>, <<>>, <<>>, None)
        ELSE Ignored(n)

\* Node.handle_append_entries
handle_append_entries(n, message) ==
    LET term == message.term
        leader_id == message.from
        adopt == term > current_term[n]
        term1 == IF adopt THEN term ELSE current_term[n]
        state1 == IF adopt THEN FOLLOWER ELSE state[n]
        voted1 == IF adopt THEN None ELSE voted_for[n]
        accept == term >= term1
        stepdown == accept /\ state1 = CANDIDATE
        reply == Msg("append_entries_response", n, leader_id, term1, FALSE, accept)
    IN  Outcome(IF stepdown THEN FOLLOWER ELSE state1, term1, voted1,
                votes_received[n],
                accept,
                <<reply>>, <<>>,
                (IF adopt THEN <<StateChange(n, state1, term1)>> ELSE <<>>)
                    \o (IF stepdown THEN <<StateChange(n, FOLLOWER, term1)>> ELSE <<>>),
                None)

\* Node.receive_message: dispatch on the type; any other type falls through
receive_message(n, message) ==
    IF message.type = "request_vote" THEN handle_vote_request(n, message)
    ELSE IF message.type = "vote_response" THEN handle_vote_response(n, message)
    ELSE IF message.type = "append_entries" THEN handle_append_entries(n, message)
    ELSE Ignored(n)


\* The terms node n has taken from a message, after message was handled with
\* outcome r: the handlers take a term that is larger than the node's own
Adopt(n, message, r) ==
    IF r.current_term > current_term[n] /\ r.current_term = message.term
    THEN [adopted EXCEPT ![n] = @ \cup {message.term}]
    ELSE adopted

\* ------------------------------------------------------------ applying them
\* The node's fields after a handler or an election step with outcome r
Apply(n, r) ==
    /\ state' = [state EXCEPT ![n] = r.state]
    /\ current_term' = [current_term EXCEPT ![n] = r.current_term]
    /\ voted_for' = [voted_for EXCEPT ![n] = r.voted_for]
    /\ votes_received' = [votes_received EXCEPT ![n] = r.votes_received]
    /\ timed_out' = [timed_out EXCEPT ![n] = IF r.reset THEN FALSE ELSE @]
    /\ message_queue' = [message_queue EXCEPT ![n] = @ \cup Range(r.local)]

\* The history after a step: who was seen LEADER in which term, and who cast
\* which vote
Record(n, r) ==
    /\ led' = led \cup {<<i, current_term'[i]>> : i \in {j \in Nodes : state'[j] = LEADER}}
    /\ voted' = IF r.cast = None THEN voted
                ELSE [voted EXCEPT ![n] = @ \cup {<<r.current_term, r.cast>>}]

\* Node n is in no group of the installed partition, or in a group of at
\* most half the nodes
Minority(n) ==
    \A g \in 1 .. Len(partition_groups) :
        n \in partition_groups[g] => 2 * Cardinality(partition_groups[g]) <= node_count

\* ------------------------------------------------------------ node threads
Thread(pc, tmp) == [pc |-> pc, tmp |-> tmp]

NoThread == Thread("none", 0)

Slots == 1 .. MaxThreads

\* Node.run, "while self.running" found false: the thread ends
run_exit(n, k) ==
    /\ thread[n][k].pc = "loop"
    /\ ~running[n]
    /\ thread' = [thread EXCEPT ![n][k] = NoThread]
    /\ events' = <<>>
    /\ pumped' = NoMsg
    /\ drew' = {}
    /\ UNCHANGED journal
    /\ fault_call' = NoCall
    /\ UNCHANGED <<confVars, logVars>>
    /\ UNCHANGED <<nodeVars, netVars, budget, histVars>>

\* Node.run, the LEADER branch taken: send_heartbeats is called next
run_leader(n, k) ==
    /\ thread[n][k].pc = "loop"
    /\ running[n]
    /\ state[n] = LEADER
    /\ budget.heartbeats > 0
    /\ thread' = [thread EXCEPT ![n][k].pc = "heartbeat"]
    /\ budget' = [budget EXCEPT !.heartbeats = @ - 1]
    /\ events' = <<>>
    /\ pumped' = NoMsg
    /\ drew' = {}
    /\ UNCHANGED journal
    /\ fault_call' = NoCall
    /\ UNCHANGED <<confVars, logVars>>
    /\ UNCHANGED <<nodeVars, netVars, histVars>>

\* Node.send_heartbeats called from Node.run
run_send_heartbeats(n, k) ==
    /\ thread[n][k].pc = "heartbeat"
    /\ thread' = [thread EXCEPT ![n][k].pc = "loop"]
    /\ message_queue' = [message_queue EXCEPT
                            ![n] = @ \cup Range(heartbeat_entries(n, current_term[n]))]
    /\ message_buffer' = message_buffer \o send_heartbeats(n, current_term[n])
    /\ events' = SentEvents(send_heartbeats(n, current_term[n]))
    /\ pumped' = NoMsg
    /\ drew' = {}
    /\ UNCHANGED journal
    /\ fault_call' = NoCall
    /\ UNCHANGED <<confVars, logVars>>
    /\ UNCHANGED <<state, current_term, voted_for, votes_received, running, timed_out>>
    /\ UNCHANGED <<current_messages, pump_pc, partitioned, partition_groups>>
    /\ UNCHANGED <<budget, histVars>>

\* Node.run, the election timeout found elapsed, and Node.start_election up
\* to the read of current_term in "self.current_term += 1", by a thread that
\* is at pc
start_election_at(n, k, pc) ==
    /\ thread[n][k].pc = pc
    /\ running[n]
    /\ state[n] # LEADER
    /\ timed_out[n]
    /\ budget.elections > 0
    /\ state' = [state EXCEPT ![n] = CANDIDATE]
    /\ thread' = [thread EXCEPT ![n][k] = Thread("election", current_term[n])]
    /\ budget' = [budget EXCEPT !.elections = @ - 1]
    /\ events' = <<>>
    /\ led' = led \cup {<<i, current_term[i]>> : i \in {j \in Nodes : state'[j] = LEADER}}
    /\ begun_under' = [begun_under EXCEPT ![n] = partitioned /\ Minority(n)]
    /\ pumped' = NoMsg
    /\ drew' = {}
    /\ UNCHANGED journal
    /\ fault_call' = NoCall
    /\ UNCHANGED <<confVars, deposed, adopted>>
    /\ UNCHANGED <<current_term, voted_for, votes_received, running, timed_out,
                   message_queue>>
    /\ UNCHANGED <<netVars, voted, granted, hb_fresh>>

start_election_begin(n, k) == start_election_at(n, k, "loop")

\* Node.start_election with a count of the votes after the node's vote for
\* itself: a node whose own vote is a majority becomes LEADER at once
start_election_outcome_counts(n, st, tmp) ==
    Outcome(IF IsMajority(1) THEN LEADER ELSE st, tmp + 1, n, 1, TRUE,
            request_votes(n, tmp + 1), request_votes(n, tmp + 1),
            <<StateChange(n, IF IsMajority(1) THEN LEADER ELSE st, tmp + 1)>>
                \o SentEvents(request_votes(n, tmp + 1)),
            n)

\* Node.start_election from the write of current_term on, with
\* request_votes: st is self.state as the state_change notification reads
\* it, tmp the term that "self.current_term += 1" read
start_election_outcome(n, st, tmp) ==
    Outcome(st, tmp + 1, n, 1, TRUE,
            request_votes(n, tmp + 1), request_votes(n, tmp + 1),
            <<StateChange(n, st, tmp + 1)>>
                \o SentEvents(request_votes(n, tmp + 1)),
            n)

start_election_finish(n, k) ==
    /\ thread[n][k].pc = "election"
    /\ LET r == start_election_outcome(n, state[n], thread[n][k].tmp)
       IN  /\ Apply(n, r)
           /\ Record(n, r)
           /\ message_buffer' = message_buffer \o r.out
           /\ events' = r.ev
    /\ thread' = [thread EXCEPT ![n][k] = Thread("loop", 0)]
    /\ hb_fresh' = [hb_fresh EXCEPT ![n] = NoMsg]
    /\ pumped' = NoMsg
    /\ drew' = {n}
    /\ UNCHANGED journal
    /\ fault_call' = NoCall
    /\ UNCHANGED <<confVars, logVars>>
    /\ UNCHANGED <<running, current_messages, pump_pc, partitioned, partition_groups>>
    /\ UNCHANGED <<budget, granted>>

\* An election timeout elapses at node n with no assignment to last_heartbeat
time_passes(n) ==
    /\ ~timed_out[n]
    /\ budget.elections > 0
    /\ timed_out' = [timed_out EXCEPT ![n] = TRUE]
    /\ events' = <<>>
    /\ pumped' = NoMsg
    /\ drew' = {}
    /\ UNCHANGED journal
    /\ fault_call' = NoCall
    /\ UNCHANGED <<confVars, logVars>>
    /\ UNCHANGED <<state, current_term, voted_for, votes_received, running,
                   message_queue>>
    /\ UNCHANGED <<thread, netVars, budget, histVars>>

\* An election timeout elapses at node n since the last heartbeat reached it
heartbeat_expires(n) ==
    /\ timed_out[n]
    /\ hb_fresh[n] # NoMsg
    /\ hb_fresh' = [hb_fresh EXCEPT ![n] = NoMsg]
    /\ events' = <<>>
    /\ pumped' = NoMsg
    /\ drew' = {}
    /\ UNCHANGED journal
    /\ fault_call' = NoCall
    /\ UNCHANGED <<confVars, logVars>>
    /\ UNCHANGED <<nodeVars, thread, netVars, budget, led, voted, granted>>

\* ---------------------------------------------------------------- transport
\* Cluster.can_deliver_message with "or" for "and": one endpoint in a group
\* is enough
can_deliver_message_either(from_id, to_id) ==
    IF ~partitioned THEN TRUE
    ELSE \E g \in 1 .. Len(partition_groups) :
            from_id \in partition_groups[g] \/ to_id \in partition_groups[g]

\* Cluster.can_deliver_message without "if not self.partitioned: return
\* True": the groups decide whether or not a partition is in effect
can_deliver_message_by_groups(from_id, to_id) ==
    \E g \in 1 .. Len(partition_groups) :
        from_id \in partition_groups[g] /\ to_id \in partition_groups[g]

\* Cluster.can_deliver_message
can_deliver_message(from_id, to_id) ==
    IF ~partitioned THEN TRUE
    ELSE \E g \in 1 .. Len(partition_groups) :
            from_id \in partition_groups[g] /\ to_id \in partition_groups[g]

\* Cluster.process_messages: the previous batch is drained, the loop goes
\* round and current_messages = self.message_buffer.copy().  A copy of an
\* empty buffer changes nothing and is left out.
pump_copy ==
    /\ pump_pc = "drain"
    /\ current_messages = <<>>
    /\ message_buffer # <<>>
    /\ current_messages' = message_buffer
    /\ pump_pc' = "clear"
    /\ events' = <<>>
    /\ pumped' = NoMsg
    /\ drew' = {}
    /\ UNCHANGED journal
    /\ fault_call' = NoCall
    /\ UNCHANGED <<confVars, logVars>>
    /\ UNCHANGED <<nodeVars, thread, message_buffer, partitioned, partition_groups>>
    /\ UNCHANGED <<budget, histVars>>

\* Cluster.process_messages: self.message_buffer = []
pump_clear ==
    /\ pump_pc = "clear"
    /\ message_buffer' = <<>>
    /\ pump_pc' = "drain"
    /\ events' = <<>>
    /\ pumped' = NoMsg
    /\ drew' = {}
    /\ UNCHANGED journal
    /\ fault_call' = NoCall
    /\ UNCHANGED <<confVars, logVars>>
    /\ UNCHANGED <<nodeVars, thread, current_messages, partitioned, partition_groups>>
    /\ UNCHANGED <<budget, histVars>>

\* Cluster.process_messages: one turn of "for message in current_messages"
pump_turn ==
    /\ pump_pc = "drain"
    /\ current_messages # <<>>
    /\ LET message == Head(current_messages)
           from_id == message.from
           to_id == message.to
           r == receive_message(to_id, message)
       IN  IF can_deliver_message(from_id, to_id)
           THEN /\ Apply(to_id, r)
                /\ Record(to_id, r)
                /\ message_buffer' = message_buffer \o r.out
                /\ events' = r.ev \o <<MessageDelivered(message)>>
                /\ granted' =
                      IF message.type = "vote_response" /\ message.vote_granted
                      THEN [granted EXCEPT ![to_id] = @ \cup {<<from_id, message.term>>}]
                      ELSE granted
                /\ hb_fresh' =
                      [hb_fresh EXCEPT ![to_id] =
                          IF r.reset THEN NoMsg
                          ELSE IF /\ message.type = "heartbeat"
                                  /\ ~(timed_out[to_id] /\ @ = NoMsg)
                          THEN message
                          ELSE @]
                /\ adopted' = Adopt(to_id, message, r)
           ELSE /\ events' = <<>>
                /\ UNCHANGED <<state, current_term, voted_for, votes_received,
                               timed_out, message_queue, message_buffer>>
                /\ UNCHANGED <<histVars, adopted>>
    /\ pumped' = Head(current_messages)
    /\ drew' = {}
    /\ fault_call' = NoCall
    /\ UNCHANGED <<confVars, deposed, begun_under>>
    /\ current_messages' = Tail(current_messages)
    /\ UNCHANGED <<running, thread, pump_pc, partitioned, partition_groups, budget>>

pump_message == pump_turn /\ UNCHANGED journal

\* ------------------------------------------------------------------- faults
Started == pump_pc # "none"

\* The ids a caller may pass: every node id, one below and one above
NodeIds == -1 .. node_count

InRange(node_id) == 0 <= node_id /\ node_id < node_count

\* Cluster.fail_node with the test of node_id left out: self.nodes[node_id]
\* takes a negative index from the end of the list and raises IndexError,
\* before anything is changed or notified, for an index past the end
fail_node_unchecked(node_id) ==
    LET index == IF node_id < 0 THEN node_id + node_count ELSE node_id
    IN  /\ Started
        /\ budget.faults > 0
        /\ budget' = [budget EXCEPT !.faults = @ - 1]
        /\ IF InRange(index)
           THEN /\ running' = [running EXCEPT ![index] = FALSE]
                /\ events' = <<Event("node_failure", index, "", 0, NoMsg),
                               Event("node_failed", node_id, "", 0, NoMsg)>>
           ELSE /\ events' = <<>>
                /\ UNCHANGED running
        /\ deposed' =
              [n \in Nodes |->
                  IF ~InRange(index) THEN deposed[n]
                  ELSE IF n = index
                  THEN IF state[n] = LEADER THEN Deposed("failed", led) ELSE NotDeposed
                  ELSE IF deposed[n].status = "rejoined" THEN NotDeposed
                  ELSE deposed[n]]
        /\ fault_call' = FaultCall("fail_node", node_id)
        /\ pumped' = NoMsg
        /\ drew' = {}
        /\ UNCHANGED journal
        /\ UNCHANGED <<confVars, adopted, begun_under>>
        /\ UNCHANGED <<state, current_term, voted_for, votes_received, timed_out,
                       message_queue>>
        /\ UNCHANGED <<thread, netVars, histVars>>

\* Cluster.fail_node with Node.simulate_failure
fail_node(node_id) ==
    /\ Started
    /\ budget.faults > 0
    /\ budget' = [budget EXCEPT !.faults = @ - 1]
    /\ IF InRange(node_id)
       THEN /\ running' = [running EXCEPT ![node_id] = FALSE]
            /\ events' = <<Event("node_failure", node_id, "", 0, NoMsg),
                           Event("node_failed", node_id, "", 0, NoMsg)>>
       ELSE /\ events' = <<>>
            /\ UNCHANGED running
    /\ deposed' =
          [n \in Nodes |->
              IF ~InRange(node_id) THEN deposed[n]
              ELSE IF n = node_id
              THEN IF state[n] = LEADER THEN Deposed("failed", led) ELSE NotDeposed
              ELSE IF deposed[n].status = "rejoined" THEN NotDeposed
              ELSE deposed[n]]
    /\ fault_call' = FaultCall("fail_node", node_id)
    /\ pumped' = NoMsg
    /\ drew' = {}
    /\ UNCHANGED journal
    /\ UNCHANGED <<confVars, adopted, begun_under>>
    /\ UNCHANGED <<state, current_term, voted_for, votes_received, timed_out,
                   message_queue>>
    /\ UNCHANGED <<thread, netVars, histVars>>

\* The first unused thread slot of node n, 0 when there is none
FreeSlot(n) ==
    IF \E k \in Slots : thread[n][k].pc = "none"
    THEN CHOOSE k \in Slots :
            /\ thread[n][k].pc = "none"
            /\ \A j \in Slots : thread[n][j].pc = "none" => k <= j
    ELSE 0

\* Node.restore: what it does to a node that is not running
restore_outcome(n) ==
    Outcome(FOLLOWER, current_term[n] + 1, None, votes_received[n],
            FALSE, <<>>, <<>>,
            <<Event("node_restore", n, "", 0, NoMsg)>>, None)

\* Node.restore with its test left out: it takes effect on every node
restore_applies_always(n) == TRUE

\* Node.restore, "if not self.running": it takes effect on a failed node only
restore_applies(n) == ~running[n]

\* Cluster.restore_node with Node.restore
restore_node(node_id) ==
    /\ Started
    /\ budget.faults > 0
    /\ budget' = [budget EXCEPT !.faults = @ - 1]
    /\ IF InRange(node_id) /\ restore_applies(node_id)
       THEN LET r == restore_outcome(node_id)
            IN  /\ FreeSlot(node_id) # 0
                /\ running' = [running EXCEPT ![node_id] = TRUE]
                /\ state' = [state EXCEPT ![node_id] = r.state]
                /\ current_term' = [current_term EXCEPT ![node_id] = r.current_term]
                /\ voted_for' = [voted_for EXCEPT ![node_id] = r.voted_for]
                /\ timed_out' = [timed_out EXCEPT ![node_id] = TRUE]
                /\ thread' = [thread EXCEPT
                                ![node_id][FreeSlot(node_id)] = Thread("loop", 0)]
                /\ events' = r.ev \o <<Event("node_restored", node_id, "", 0, NoMsg)>>
                /\ led' = led \cup {<<i, current_term'[i]>> :
                                        i \in {j \in Nodes : state'[j] = LEADER}}
                /\ hb_fresh' = [hb_fresh EXCEPT ![node_id] = NoMsg]
                /\ adopted' = [adopted EXCEPT ![node_id] = @ \cup {r.current_term}]
                /\ deposed' =
                      [deposed EXCEPT ![node_id] =
                          IF /\ @.status = "failed"
                             /\ \E p \in led \ @.led : p[1] # node_id
                          THEN Deposed("rejoined", {})
                          ELSE NotDeposed]
                /\ UNCHANGED <<votes_received, message_queue>>
       ELSE /\ events' = IF InRange(node_id)
                         THEN <<Event("node_restored", node_id, "", 0, NoMsg)>>
                         ELSE <<>>
            /\ UNCHANGED <<nodeVars, thread, led, hb_fresh, adopted, deposed>>
    /\ fault_call' = FaultCall("restore_node", node_id)
    /\ pumped' = NoMsg
    /\ drew' = {}
    /\ UNCHANGED journal
    /\ UNCHANGED <<confVars, begun_under>>
    /\ UNCHANGED <<netVars, voted, granted>>

\* The groups a caller installs: the two halves the control panel builds
\* (visualizer.py, create_random_partition), two groups that share a node,
\* and one group that leaves node 0 out
Half == node_count \div 2

PartitionChoices ==
    { << 0 .. (Half - 1), Half .. (node_count - 1) >>,
      << 0 .. Half, Half .. (node_count - 1) >>,
      << 1 .. (node_count - 1) >> }

\* Cluster.create_partition
create_partition(groups) ==
    /\ Started
    /\ budget.partitions > 0
    /\ budget' = [budget EXCEPT !.partitions = @ - 1]
    /\ partitioned' = TRUE
    /\ partition_groups' = groups
    /\ events' = <<Event("network_partition", None, "", 0, NoMsg)>>
    /\ begun_under' = [n \in Nodes |-> FALSE]
    /\ pumped' = NoMsg
    /\ drew' = {}
    /\ UNCHANGED journal
    /\ fault_call' = NoCall
    /\ UNCHANGED <<confVars, deposed, adopted>>
    /\ UNCHANGED <<nodeVars, thread, message_buffer, current_messages, pump_pc>>
    /\ UNCHANGED histVars

\* Cluster.heal_partition
heal_partition ==
    /\ Started
    /\ budget.partitions > 0
    /\ budget' = [budget EXCEPT !.partitions = @ - 1]
    /\ partitioned' = FALSE
    /\ partition_groups' = <<>>
    /\ events' = <<Event("network_healed", None, "", 0, NoMsg)>>
    /\ begun_under' = [n \in Nodes |-> FALSE]
    /\ pumped' = NoMsg
    /\ drew' = {}
    /\ UNCHANGED journal
    /\ fault_call' = NoCall
    /\ UNCHANGED <<confVars, deposed, adopted>>
    /\ UNCHANGED <<nodeVars, thread, message_buffer, current_messages, pump_pc>>
    /\ UNCHANGED histVars

\* ------------------------------------------------------------ specification
\* Cluster(node_count = count): Cluster.__init__ with Node.__init__ for
\* every node, and the subscribers registered with the cluster
ConstructedWith(count, kinds) ==
    /\ node_count = count
    /\ raises = kinds
    /\ drew = 0 .. (count - 1)
    /\ fault_call = NoCall
    /\ deposed = [n \in 0 .. (count - 1) |-> NotDeposed]
    /\ adopted = [n \in 0 .. (count - 1) |-> {}]
    /\ begun_under = [n \in 0 .. (count - 1) |-> FALSE]
    /\ journal = [sent |-> <<>>, delivered |-> <<>>]
    /\ state = [n \in Nodes |-> FOLLOWER]
    /\ current_term = [n \in Nodes |-> 0]
    /\ voted_for = [n \in Nodes |-> None]
    /\ votes_received = [n \in Nodes |-> 0]
    /\ running = [n \in Nodes |-> TRUE]
    /\ timed_out = [n \in Nodes |-> FALSE]
    /\ message_queue = [n \in Nodes |-> {}]
    /\ thread = [n \in Nodes |-> [k \in Slots |-> NoThread]]
    /\ message_buffer = <<>>
    /\ current_messages = <<>>
    /\ pump_pc = "none"
    /\ partitioned = FALSE
    /\ partition_groups = <<>>
    /\ events = <<>>
    /\ pumped = NoMsg
    /\ led = {}
    /\ voted = [n \in Nodes |-> {}]
    /\ granted = [n \in Nodes |-> {}]
    /\ hb_fresh = [n \in Nodes |-> NoMsg]

Constructed == ConstructedWith(NodeCount, {})

Budget(e, h, f, p, c) ==
    [elections |-> e, heartbeats |-> h, faults |-> f, partitions |-> p, calls |-> c]

Init ==
    /\ Constructed
    /\ budget = Budget(MaxElections, MaxHeartbeats, 0, 0, 0)

\* Cluster.start: every node's thread and the pump thread are started
start ==
    /\ ~Started
    /\ thread' = [n \in Nodes |-> [thread[n] EXCEPT ![1] = Thread("loop", 0)]]
    /\ pump_pc' = "drain"
    /\ events' = <<>>
    /\ pumped' = NoMsg
    /\ drew' = {}
    /\ UNCHANGED journal
    /\ fault_call' = NoCall
    /\ UNCHANGED <<confVars, logVars>>
    /\ UNCHANGED <<nodeVars, message_buffer, current_messages>>
    /\ UNCHANGED <<partitioned, partition_groups, budget, histVars>>

Election ==
    \E n \in Nodes, k \in Slots :
        start_election_begin(n, k) \/ start_election_finish(n, k)

Heartbeats ==
    \E n \in Nodes, k \in Slots : run_leader(n, k) \/ run_send_heartbeats(n, k)

Pump == pump_copy \/ pump_clear \/ pump_message

Time == \E n \in Nodes : time_passes(n) \/ heartbeat_expires(n)

Next ==
    \/ start
    \/ Election
    \/ Heartbeats
    \/ Time
    \/ Pump

\* The cluster left to itself: node threads, pump thread and time
Spec == Init /\ [][Next]_vars

\* The cluster with a caller of fail_node and restore_node
InitFaults ==
    /\ Constructed
    /\ budget = Budget(MaxFaultElections, 0, MaxFaults, 0, 0)

NextFaults ==
    \/ start
    \/ Election
    \/ \E n \in Nodes : time_passes(n)
    \/ Pump
    \/ \E n \in Nodes, k \in Slots : run_exit(n, k)
    \/ \E node_id \in NodeIds : fail_node(node_id) \/ restore_node(node_id)

SpecFaults == InitFaults /\ [][NextFaults]_vars

\* The cluster with a caller of create_partition and heal_partition
InitPartition ==
    /\ Constructed
    /\ budget = Budget(MaxPartitionElections, 0, 0, MaxPartitionOps, 0)

NextPartition ==
    \/ start
    \/ Election
    \/ \E n \in Nodes : time_passes(n)
    \/ Pump
    \/ \E groups \in PartitionChoices : create_partition(groups)
    \/ heal_partition

SpecPartition == InitPartition /\ [][NextPartition]_vars


\* A caller that holds the nodes and calls their methods itself, one call at
\* a time, with no thread started: Node.receive_message and
\* Node.start_election on the node in the middle
Target == node_count \div 2

DirectMessages ==
    {Msg(type, from, Target, term, FALSE, FALSE) :
        type \in {"request_vote", "append_entries", "heartbeat"},
        from \in Nodes \ {Target}, term \in 0 .. MaxDirectTerm}
    \cup {Msg("vote_response", from, Target, term, vg, FALSE) :
            from \in Nodes \ {Target}, term \in 0 .. MaxDirectTerm, vg \in BOOLEAN}
    \cup {Msg("append_entries_response", from, Target, term, FALSE, ok) :
            from \in Nodes \ {Target}, term \in 0 .. MaxDirectTerm, ok \in BOOLEAN}

\* What the node and the cluster's buffer hold after a call with outcome r
Called(n, r) ==
    /\ budget.calls > 0
    /\ budget' = [budget EXCEPT !.calls = @ - 1]
    /\ Apply(n, r)
    /\ Record(n, r)
    /\ message_buffer' = message_buffer \o r.out
    /\ events' = r.ev
    /\ hb_fresh' = [hb_fresh EXCEPT ![n] = IF r.reset THEN NoMsg ELSE @]
    /\ UNCHANGED <<confVars, deposed, begun_under>>
    /\ UNCHANGED <<running, thread, current_messages, pump_pc>>
    /\ UNCHANGED <<partitioned, partition_groups>>

\* Node.receive_message called directly
direct_receive(message) ==
    /\ Called(message.to, receive_message(message.to, message))
    /\ pumped' = message
    /\ drew' = {}
    /\ UNCHANGED journal
    /\ fault_call' = NoCall
    /\ adopted' = Adopt(message.to, message, receive_message(message.to, message))
    /\ granted' =
          IF message.type = "vote_response" /\ message.vote_granted
          THEN [granted EXCEPT ![message.to] = @ \cup {<<message.from, message.term>>}]
          ELSE granted

\* Node.start_election called directly
direct_start_election(n) ==
    /\ Called(n, start_election_outcome(n, CANDIDATE, current_term[n]))
    /\ pumped' = NoMsg
    /\ drew' = {n}
    /\ UNCHANGED journal
    /\ fault_call' = NoCall
    /\ UNCHANGED adopted
    /\ UNCHANGED granted

InitDirect ==
    /\ Constructed
    /\ budget = Budget(0, 0, 0, 0, MaxDirectCalls)

NextDirect ==
    \/ \E message \in DirectMessages : direct_receive(message)
    \/ direct_start_election(Target)

SpecDirect == InitDirect /\ [][NextDirect]_vars

\* The cluster with a caller who fails the LEADER, waits until another node
\* is LEADER and restores the failed node
fail_leader ==
    \E node_id \in Nodes :
        /\ running[node_id]
        /\ state[node_id] = LEADER
        /\ fail_node(node_id)

restore_deposed ==
    \E node_id \in Nodes :
        /\ ~running[node_id]
        /\ deposed[node_id].status = "failed"
        /\ \E p \in led \ deposed[node_id].led : p[1] # node_id
        /\ restore_node(node_id)

InitRejoin ==
    /\ Constructed
    /\ budget = Budget(MaxRejoinElections, 0, MaxFaults, 0, 0)

NextRejoin ==
    \/ start
    \/ Election
    \/ \E n \in Nodes : time_passes(n)
    \/ Pump
    \/ \E n \in Nodes, k \in Slots : run_exit(n, k)
    \/ fail_leader
    \/ restore_deposed

SpecRejoin == InitRejoin /\ [][NextRejoin]_vars

\* A cluster large enough for a group of two nodes to be at most half of
\* it, with a caller of create_partition
InitSplit ==
    /\ ConstructedWith(SplitNodeCount, {})
    /\ budget = Budget(MaxSplitElections, 0, 0, MaxSplitOps, 0)

NextSplit ==
    \/ start
    \/ Election
    \/ \E n \in Nodes : time_passes(n)
    \/ Pump
    \/ \E groups \in PartitionChoices : create_partition(groups)

SpecSplit == InitSplit /\ [][NextSplit]_vars

\* -------------------------------------------------------------- first tick
\* The cluster with a caller who fails a node, waits until its thread has
\* ended and restores it.  The thread Node.restore starts is at "restored"
\* until it has gone once through the body of the loop of Node.run.
restore_stopped(node_id) ==
    LET r == restore_outcome(node_id)
    IN  /\ Started
        /\ budget.faults > 0
        /\ ~running[node_id]
        /\ \A k \in Slots : thread[node_id][k].pc = "none"
        /\ budget' = [budget EXCEPT !.faults = @ - 1]
        /\ running' = [running EXCEPT ![node_id] = TRUE]
        /\ state' = [state EXCEPT ![node_id] = r.state]
        /\ current_term' = [current_term EXCEPT ![node_id] = r.current_term]
        /\ voted_for' = [voted_for EXCEPT ![node_id] = r.voted_for]
        /\ timed_out' = [timed_out EXCEPT ![node_id] = TRUE]
        /\ thread' = [thread EXCEPT ![node_id][1] = Thread("restored", 0)]
        /\ events' = r.ev \o <<Event("node_restored", node_id, "", 0, NoMsg)>>
        /\ led' = led \cup {<<i, current_term'[i]>> :
                                i \in {j \in Nodes : state'[j] = LEADER}}
        /\ hb_fresh' = [hb_fresh EXCEPT ![node_id] = NoMsg]
        /\ adopted' = [adopted EXCEPT ![node_id] = @ \cup {r.current_term}]
        /\ fault_call' = FaultCall("restore_node", node_id)
        /\ pumped' = NoMsg
        /\ drew' = {}
        /\ UNCHANGED journal
        /\ UNCHANGED <<confVars, deposed, begun_under>>
        /\ UNCHANGED <<votes_received, message_queue, netVars, voted, granted>>

\* Node.run, the first time through the loop of a restored node's thread:
\* the node is running and not LEADER, and the election timeout is found
\* not to have elapsed
first_tick_idle(n, k) ==
    /\ thread[n][k].pc = "restored"
    /\ running[n]
    /\ state[n] # LEADER
    /\ ~timed_out[n]
    /\ thread' = [thread EXCEPT ![n][k].pc = "loop"]
    /\ events' = <<>>
    /\ pumped' = NoMsg
    /\ drew' = {}
    /\ UNCHANGED journal
    /\ fault_call' = NoCall
    /\ UNCHANGED <<confVars, logVars>>
    /\ UNCHANGED <<nodeVars, netVars, budget, histVars>>

\* Node.run, the first time through the loop: start_election is called
first_tick_election(n, k) == start_election_at(n, k, "restored")

InitRestart ==
    /\ Constructed
    /\ budget = Budget(MaxRestartElections, 0, MaxFaults, 0, 0)

NextRestart ==
    \/ start
    \/ Election
    \/ \E n \in Nodes : time_passes(n)
    \/ Pump
    \/ \E n \in Nodes, k \in Slots : run_exit(n, k)
    \/ \E n \in Nodes : fail_node(n)
    \/ \E n \in Nodes : restore_stopped(n)
    \/ \E n \in Nodes, k \in Slots : first_tick_idle(n, k)
    \/ \E n \in Nodes, k \in Slots : first_tick_election(n, k)

SpecRestart == InitRestart /\ [][NextRestart]_vars

\* -------------------------------------------------------- one dict at a time
\* The cluster with Node.request_votes taken one statement at a time.  For
\* every peer the node appends the dict to its message_queue and calls
\* notify_observers, which builds the dict that is buffered and goes through
\* Cluster.node_event_callback: the cluster's subscribers are notified, and
\* then the dict is appended to message_buffer.  The thread is at
\* "callback", holding the dict, in between.
NextPeer(n, i) ==
    IF \E j \in i .. (node_count - 1) : j # n
    THEN CHOOSE j \in i .. (node_count - 1) :
            j # n /\ \A h \in i .. (j - 1) : h = n
    ELSE node_count

\* Where the thread goes once the peers from i on are left
AfterPeer(n, i) ==
    IF NextPeer(n, i) < node_count
    THEN Thread("request_votes", NextPeer(n, i))
    ELSE Thread("loop", 0)

\* Node.start_election from the write of current_term up to the call of
\* request_votes
start_election_store(n, k) ==
    /\ thread[n][k].pc = "election"
    /\ LET r == Outcome(state[n], thread[n][k].tmp + 1, n, 1, TRUE, <<>>, <<>>,
                        <<StateChange(n, state[n], thread[n][k].tmp + 1)>>, n)
       IN  /\ Apply(n, r)
           /\ Record(n, r)
           /\ events' = r.ev
    /\ thread' = [thread EXCEPT ![n][k] = AfterPeer(n, 0)]
    /\ hb_fresh' = [hb_fresh EXCEPT ![n] = NoMsg]
    /\ pumped' = NoMsg
    /\ drew' = {n}
    /\ fault_call' = NoCall
    /\ UNCHANGED <<confVars, logVars, journal>>
    /\ UNCHANGED <<running, netVars, budget, granted>>

\* Node.request_votes, one turn of the loop up to the subscribers'
\* notification in Cluster.node_event_callback
request_votes_queue(n, k) ==
    /\ thread[n][k].pc = "request_votes"
    /\ LET m == Msg("request_vote", n, thread[n][k].tmp, current_term[n], FALSE, FALSE)
       IN  /\ message_queue' = [message_queue EXCEPT ![n] = @ \cup {m}]
           /\ thread' = [thread EXCEPT ![n][k] = Thread("callback", m)]
           /\ events' = <<MessageSent(m)>>
           /\ journal' = [journal EXCEPT !.sent = Append(@, m)]
    /\ pumped' = NoMsg
    /\ drew' = {}
    /\ fault_call' = NoCall
    /\ UNCHANGED <<confVars, logVars>>
    /\ UNCHANGED <<state, current_term, voted_for, votes_received, running, timed_out>>
    /\ UNCHANGED <<netVars, budget, histVars>>

\* Cluster.node_event_callback, self.message_buffer.append(message), and
\* the return to the loop of Node.request_votes
request_votes_append(n, k) ==
    /\ thread[n][k].pc = "callback"
    /\ message_buffer' = Append(message_buffer, thread[n][k].tmp)
    /\ thread' = [thread EXCEPT ![n][k] = AfterPeer(n, thread[n][k].tmp.to + 1)]
    /\ events' = <<>>
    /\ pumped' = NoMsg
    /\ drew' = {}
    /\ fault_call' = NoCall
    /\ UNCHANGED <<confVars, logVars, journal>>
    /\ UNCHANGED <<nodeVars, current_messages, pump_pc, partitioned, partition_groups>>
    /\ UNCHANGED <<budget, histVars>>

\* Cluster.process_messages, one turn of the loop, with the journal kept:
\* a handler sends its dicts on the pump thread, one after the other
pump_message_logged ==
    /\ pump_turn
    /\ LET message == Head(current_messages)
           r == receive_message(message.to, message)
       IN  journal' =
              IF can_deliver_message(message.from, message.to)
              THEN [sent |-> journal.sent \o r.out,
                    delivered |-> Append(journal.delivered, message)]
              ELSE journal

InitOrder ==
    /\ ConstructedWith(OrderNodeCount, {})
    /\ budget = Budget(MaxOrderElections, 0, 0, 0, 0)

NextOrder ==
    \/ start
    \/ \E n \in Nodes, k \in Slots : start_election_begin(n, k)
    \/ \E n \in Nodes, k \in Slots : start_election_store(n, k)
    \/ \E n \in Nodes, k \in Slots : request_votes_queue(n, k)
    \/ \E n \in Nodes, k \in Slots : request_votes_append(n, k)
    \/ \E n \in Nodes : time_passes(n)
    \/ pump_copy
    \/ pump_clear
    \/ pump_message_logged

SpecOrder == InitOrder /\ [][NextOrder]_vars

\* ------------------------------------------------------------ cluster sizes
\* The cluster left to itself, built with one node or with NodeCount nodes
InitSizes ==
    /\ \E count \in {1, NodeCount} : ConstructedWith(count, {})
    /\ budget = Budget(MaxSizesElections, MaxHeartbeats, 0, 0, 0)

NextSizes ==
    \/ start
    \/ Election
    \/ Heartbeats
    \/ \E n \in Nodes : time_passes(n)
    \/ Pump

SpecSizes == InitSizes /\ [][NextSizes]_vars

\* ------------------------------------------------------- faulty subscriber
\* The cluster with two subscribers, the one registered first raising on
\* some notifications.  Neither notify_observers catches anything: the
\* exception leaves Cluster.node_event_callback before the append to
\* message_buffer, then the handler or start_election, and ends the thread
\* it was raised in.  events holds what reached the second subscriber.
ObserverFaults ==
    {{<<"message_delivered", "">>}} \cup
        {{<<"state_change", st>>} : st \in {FOLLOWER, CANDIDATE, LEADER}}

Raises(e) == <<e.kind, e.state>> \in raises

\* No notification of the step made the first subscriber raise
Heard == \A i \in 1 .. Len(events') : ~Raises(events'[i])

\* Node.start_election up to the state_change notification, which raises:
\* request_votes is not reached and Node.run ends with the exception
start_election_raises(n, k) ==
    /\ thread[n][k].pc = "election"
    /\ Raises(StateChange(n, state[n], thread[n][k].tmp + 1))
    /\ LET r == Outcome(state[n], thread[n][k].tmp + 1, n, 1, TRUE,
                        <<>>, <<>>, <<>>, n)
       IN  /\ Apply(n, r)
           /\ Record(n, r)
    /\ thread' = [thread EXCEPT ![n][k] = Thread("raised", 0)]
    /\ events' = <<>>
    /\ hb_fresh' = [hb_fresh EXCEPT ![n] = NoMsg]
    /\ pumped' = NoMsg
    /\ drew' = {n}
    /\ UNCHANGED journal
    /\ fault_call' = NoCall
    /\ UNCHANGED <<confVars, logVars>>
    /\ UNCHANGED <<running, netVars, budget, granted>>

\* A handler of node n up to its first state_change notification, which
\* raises; r is what the handler does when nothing raises.  The fields
\* assigned before the notification are kept, nothing is appended to
\* message_queue and nothing more is notified.
receive_message_raises(n, message, r) ==
    Outcome(r.ev[1].state, r.ev[1].term,
            IF r.current_term > current_term[n] THEN None ELSE voted_for[n],
            r.votes_received,
            message.type = "append_entries" /\ r.current_term = current_term[n],
            <<>>, <<>>, <<>>, None)

\* Cluster.process_messages: one turn of "for message in current_messages"
\* in which the first subscriber raises, in the handler or on
\* message_delivered, and process_messages ends with the exception
pump_message_raises ==
    /\ pump_pc = "drain"
    /\ current_messages # <<>>
    /\ LET message == Head(current_messages)
           to_id == message.to
           r == receive_message(to_id, message)
           inside == r.ev # <<>> /\ Raises(r.ev[1])
           q == IF inside THEN receive_message_raises(to_id, message, r) ELSE r
       IN  /\ can_deliver_message(message.from, to_id)
           /\ inside \/ Raises(MessageDelivered(message))
           /\ Apply(to_id, q)
           /\ Record(to_id, q)
           /\ message_buffer' = message_buffer \o q.out
           /\ events' = q.ev
           /\ granted' =
                 IF message.type = "vote_response" /\ message.vote_granted
                 THEN [granted EXCEPT ![to_id] = @ \cup {<<message.from, message.term>>}]
                 ELSE granted
           /\ hb_fresh' = [hb_fresh EXCEPT ![to_id] = IF q.reset THEN NoMsg ELSE @]
           /\ adopted' = Adopt(to_id, message, q)
    /\ pumped' = Head(current_messages)
    /\ pump_pc' = "raised"
    /\ current_messages' = Tail(current_messages)
    /\ drew' = {}
    /\ UNCHANGED journal
    /\ fault_call' = NoCall
    /\ UNCHANGED <<confVars, deposed, begun_under>>
    /\ UNCHANGED <<running, thread, partitioned, partition_groups, budget>>

InitObserver ==
    /\ \E kinds \in ObserverFaults : ConstructedWith(NodeCount, kinds)
    /\ budget = Budget(MaxObserverElections, 0, 0, 0, 0)

NextObserver ==
    \/ start
    \/ \E n \in Nodes, k \in Slots : start_election_begin(n, k)
    \/ \E n \in Nodes, k \in Slots : start_election_finish(n, k) /\ Heard
    \/ \E n \in Nodes, k \in Slots : start_election_raises(n, k)
    \/ \E n \in Nodes : time_passes(n)
    \/ pump_copy
    \/ pump_clear
    \/ pump_message /\ Heard
    \/ pump_message_raises

SpecObserver == InitObserver /\ [][NextObserver]_vars

\* ----------------------------------------------------------------- fair runs
\* The cluster left to itself for ever.  Every election adds 1 to a term, so
\* the terms of an endless run grow without bound; the code compares terms
\* with each other and adds 1 to them and does nothing else with them, so,
\* whenever the cluster is idle with no LEADER, the smallest term is taken
\* for the new 0, the history is forgotten and the elections are counted
\* from 0 again.
Idle ==
    /\ message_buffer = <<>>
    /\ current_messages = <<>>
    /\ pump_pc = "drain"
    /\ \A n \in Nodes, k \in Slots : thread[n][k].pc # "election"

RECURSIVE Lowest(_, _)
Lowest(terms, i) ==
    IF i = 0 THEN terms[0]
    ELSE IF terms[i] < Lowest(terms, i - 1) THEN terms[i]
    ELSE Lowest(terms, i - 1)

renumber_terms ==
    /\ Idle
    /\ budget.elections = 0
    /\ \A n \in Nodes : state[n] # LEADER
    /\ current_term' =
          [n \in Nodes |-> current_term[n] - Lowest(current_term, node_count - 1)]
    /\ budget' = [budget EXCEPT !.elections = MaxLiveElections]
    /\ message_queue' = [n \in Nodes |-> {}]
    /\ led' = {}
    /\ voted' = [n \in Nodes |-> {}]
    /\ granted' = [n \in Nodes |-> {}]
    /\ hb_fresh' = [n \in Nodes |-> NoMsg]
    /\ adopted' = [n \in Nodes |-> {}]
    /\ events' = <<>>
    /\ pumped' = NoMsg
    /\ drew' = {}
    /\ UNCHANGED journal
    /\ fault_call' = NoCall
    /\ UNCHANGED <<state, voted_for, votes_received, running, timed_out, thread>>
    /\ UNCHANGED <<netVars, confVars, deposed, begun_under>>

\* The runs in which an election timeout elapses only while the cluster is
\* idle, and the pump thread is not scheduled while a node thread is inside
\* start_election
LiveTick(n) ==
    \E k \in Slots : start_election_begin(n, k) \/ start_election_finish(n, k)

LiveTime(n) == Idle /\ time_passes(n)

LivePump ==
    /\ \A n \in Nodes, k \in Slots : thread[n][k].pc # "election"
    /\ Pump

InitLive ==
    /\ Constructed
    /\ budget = Budget(MaxLiveElections, 0, 0, 0, 0)

NextLive ==
    \/ start
    \/ \E n \in Nodes : LiveTick(n)
    \/ \E n \in Nodes : LiveTime(n)
    \/ LivePump
    \/ renumber_terms

\* Every node thread keeps running its loop, time keeps passing at every
\* node, and the pump thread keeps running: every buffered dict is pumped
Fairness ==
    /\ WF_vars(start)
    /\ \A n \in 0 .. (NodeCount - 1) : WF_vars(LiveTick(n)) /\ WF_vars(LiveTime(n))
    /\ WF_vars(LivePump)
    /\ WF_vars(renumber_terms)

SpecLive == InitLive /\ [][NextLive]_vars /\ Fairness

\* ------------------------------------------------------------------- claims
\* C1 (election safety): for every term t, at most one node is ever LEADER
\* while its current_term is t.
ElectionSafety ==
    \A p \in led, q \in led : p[2] = q[2] => p[1] = q[1]

\* C2 (monotonic terms): no step decreases a node's current_term.
TermNeverDecreases ==
    [][\A n \in Nodes : current_term'[n] >= current_term[n]]_vars

\* C3 (at most one vote): within one term a node votes for at most one
\* candidate, its own self-vote included.
AtMostOneVotePerTerm ==
    \A n \in Nodes : \A p \in voted[n], q \in voted[n] : p[1] = q[1] => p[2] = q[2]


\* The step is a turn of the pump's loop on the dict m
Pumps(m) ==
    /\ pump_pc = "drain"
    /\ current_messages # <<>>
    /\ m = Head(current_messages)
    /\ current_messages' = Tail(current_messages)

\* The observers are told nothing of kind `kind` about node n by the step
Silent(n, kind) ==
    \A e \in Range(events') : ~(e.kind = kind /\ e.node = n)

\* C4 (a failed node neither sends nor receives): a dict the pump takes
\* while its destination has running = false is dropped: the destination's
\* role, term, vote and vote count stay as they are, the destination sends
\* no message and reports no state change, and the observers see no
\* message_delivered for the dict.
FailedNodeDropsMessages ==
    [][\A m \in Range(current_messages) :
          Pumps(m) /\ ~running[m.to] =>
             /\ state'[m.to] = state[m.to]
             /\ current_term'[m.to] = current_term[m.to]
             /\ voted_for'[m.to] = voted_for[m.to]
             /\ votes_received'[m.to] = votes_received[m.to]
             /\ Silent(m.to, "message_sent")
             /\ Silent(m.to, "state_change")
             /\ Silent(m.to, "message_delivered")]_vars

\* C5 (a delivered heartbeat is handled as AppendEntries): a heartbeat of a
\* larger term makes the peer adopt the term, clear its vote and become
\* FOLLOWER; a heartbeat of a term not below the peer's resets the peer's
\* election timer and makes a CANDIDATE step down.
HeartbeatIsHandled ==
    [][\A m \in Range(current_messages) :
          Pumps(m) /\ m.type = "heartbeat" /\ can_deliver_message(m.from, m.to) =>
             /\ m.term > current_term[m.to] =>
                   /\ current_term'[m.to] = m.term
                   /\ voted_for'[m.to] = None
                   /\ state'[m.to] = FOLLOWER
             /\ m.term >= current_term[m.to] =>
                   /\ ~timed_out'[m.to]
                   /\ state[m.to] = CANDIDATE => state'[m.to] = FOLLOWER]_vars

\* A heartbeat reached n before n's election timeout had elapsed, less than
\* an election timeout ago, from the node that is LEADER in the heartbeat's
\* term
HeartbeatInTime(n) ==
    /\ hb_fresh[n] # NoMsg
    /\ state[hb_fresh[n].from] = LEADER
    /\ current_term[hb_fresh[n].from] = hb_fresh[n].term

\* C6 (heartbeats suppress elections): with no partition and no failure, a
\* peer that the leader's heartbeat reached in time, and less than an
\* election timeout ago, begins no election.
HeartbeatsSuppressElections ==
    [][\A n \in Nodes, k \in Slots :
          thread[n][k].pc = "loop" /\ thread'[n][k].pc = "election" =>
             ~HeartbeatInTime(n)]_vars

\* Some group of the partition holds both ids
SameGroup(from_id, to_id) ==
    \E g \in Range(partition_groups) : from_id \in g /\ to_id \in g

\* C7 (partition drop): a dict the pump takes while a partition is in effect
\* and no group holds both its sender and its destination reaches no node:
\* no node's fields change, nothing is sent in reply and the observers see
\* no message_delivered.
PartitionDrop ==
    [][\A m \in Range(current_messages) :
          Pumps(m) /\ partitioned /\ ~SameGroup(m.from, m.to) =>
             /\ UNCHANGED nodeVars
             /\ message_buffer' = message_buffer
             /\ \A e \in Range(events') : e.kind # "message_delivered"]_vars

\* C7, its case: the pump has just dropped a dict whose sender is listed in
\* no group of the installed partition
PartitionDropSeen ==
    /\ pumped # NoMsg
    /\ partitioned
    /\ \A g \in Range(partition_groups) : pumped.from \notin g
    /\ \E g \in Range(partition_groups) : pumped.to \in g
    /\ events = <<>>

\* C8 (atomic swap): the buffer the pump replaces by an empty one holds
\* exactly the dicts of the batch it copied.
SwapLosesNothing ==
    [][pump_pc = "clear" /\ pump_pc' = "drain" =>
          message_buffer = current_messages]_vars

\* The nodes other than n whose granted vote_response of term t reached n
Voters(n, t) == {v \in Nodes \ {n} : <<v, t>> \in granted[n]}

\* C10 (majority implies leader): a node reported LEADER with term t has
\* received granted vote_responses of term t from at least floor(N/2) other
\* nodes.
LeaderHasMajority ==
    \A e \in Range(events) :
       e.kind = "state_change" /\ e.state = LEADER =>
          Cardinality(Voters(e.node, e.term)) >= node_count \div 2


\* C11 (liveness under healthy quorum): with no partition and no failure,
\* every node ticking and every buffered dict pumped, some node is
\* eventually LEADER.
EventuallyLeader == <>(\E n \in 0 .. (NodeCount - 1) : state[n] = LEADER)

\* C12 (restore): restore on a node that is not running sets running,
\* makes the node FOLLOWER, adds exactly 1 to its term, clears its vote and
\* draws its election timeout anew.
RestoreRejoins ==
    [][\A n \in Nodes :
          fault_call' = FaultCall("restore_node", n) /\ ~running[n] =>
             /\ running'[n]
             /\ state'[n] = FOLLOWER
             /\ current_term'[n] = current_term[n] + 1
             /\ voted_for'[n] = None
             /\ n \in drew']_vars

\* C13 (restore is only effective on a failed node): restore_node on a node
\* that is running leaves its role, term, vote, vote count, election timer
\* and threads as they are.
RestoreOnlyWhenFailed ==
    [][\A n \in Nodes :
          fault_call' = FaultCall("restore_node", n) /\ running[n] =>
             /\ state'[n] = state[n]
             /\ current_term'[n] = current_term[n]
             /\ voted_for'[n] = voted_for[n]
             /\ votes_received'[n] = votes_received[n]
             /\ timed_out'[n] = timed_out[n]
             /\ thread'[n] = thread[n]]_vars

\* C13, its case: restore_node has just been called on a running node that
\* has been through an election
RestoreOnRunningSeen ==
    \E n \in Nodes :
        /\ fault_call = FaultCall("restore_node", n)
        /\ running[n]
        /\ current_term[n] > 0
        /\ events = <<Event("node_restored", n, "", 0, NoMsg)>>

\* C14 (a restored leader rejoins as follower): a node that was failed as
\* LEADER and restored after another node had become LEADER is not LEADER
\* again as long as no node is failed.
RestoredLeaderStaysFollower ==
    \A n \in Nodes : deposed[n].status = "rejoined" => state[n] # LEADER

\* C15 (split-brain prevention): a node that began an election while it was
\* in no group, or in a group of at most half the nodes, of the partition
\* in effect, and has moved to that election's term, is not LEADER while
\* that partition stays in effect.
NoMinorityLeader ==
    \A n \in Nodes :
       begun_under[n] /\ (\A k \in Slots : thread[n][k].pc # "election") =>
          state[n] # LEADER

\* The step made node n take a larger term from a message or from restore
Adopts(n) ==
    /\ current_term'[n] > current_term[n]
    /\ \/ pumped' # NoMsg /\ pumped'.to = n /\ pumped'.term = current_term'[n]
       \/ fault_call' = FaultCall("restore_node", n)

\* C20 (a new term comes with a cleared vote and the FOLLOWER role): the
\* step in which a node takes a larger term from a message or from restore
\* leaves it FOLLOWER, with no vote but the one it grants to the sender of
\* that request_vote; and no later decision is made with the new term on
\* the old role: heartbeats stamped with a term the node has adopted are
\* sent only by a node that is LEADER.
NewTermNewRole ==
    [][\A n \in Nodes :
          /\ Adopts(n) =>
                /\ state'[n] = FOLLOWER
                /\ \/ voted_for'[n] = None
                   \/ pumped'.type = "request_vote" /\ voted_for'[n] = pumped'.from
          /\ \A e \in Range(events') :
                /\ e.kind = "message_sent"
                /\ e.msg.type = "heartbeat"
                /\ e.msg.from = n
                /\ e.msg.term \in adopted[n]
                => state'[n] = LEADER]_vars

\* C19 (heal_partition clears partitioning): when heal_partition has
\* returned, whether or not a partition was in effect, partitioned is false,
\* the group list is empty and every pair of node ids can be delivered to.
HealClearsPartition ==
    events = <<Event("network_healed", None, "", 0, NoMsg)>> =>
       /\ ~partitioned
       /\ partition_groups = <<>>
       /\ \A from_id \in Nodes, to_id \in Nodes : can_deliver_message(from_id, to_id)

\* C19, its case: heal_partition has returned, as the second of two calls
\* of create_partition and heal_partition, after a request_vote had left
\* the transport without reaching its destination
HealedSeen ==
    /\ events = <<Event("network_healed", None, "", 0, NoMsg)>>
    /\ budget.partitions = MaxPartitionOps - 2
    /\ \E n \in Nodes, p \in Nodes :
          LET m == Msg("request_vote", n, p, 1, FALSE, FALSE)
          IN  /\ m \in message_queue[n]
              /\ m \notin Range(message_buffer) \cup Range(current_messages)
              /\ current_term[p] = 0
              /\ message_queue[p] = {}

\* C18 (observer faults are isolated): the first subscriber raising changes
\* nothing for the others.  A finished start_election has notified its
\* state_change, handed every request_vote to the transport and is back in
\* the loop of Node.run; a delivered message is followed by its
\* message_delivered notification and the pump goes on draining.
ObserverFaultsIsolated ==
    [][/\ \A n \in Nodes, k \in Slots :
             thread[n][k].pc = "election" /\ thread'[n][k].pc # "election" =>
                /\ thread'[n][k].pc = "loop"
                /\ \E e \in Range(events') : e.kind = "state_change" /\ e.node = n
                /\ \A m \in Range(request_votes(n, current_term'[n])) :
                      m \in Range(message_buffer')
       /\ pumped' # NoMsg /\ can_deliver_message(pumped'.from, pumped'.to) =>
             /\ MessageDelivered(pumped') \in Range(events')
             /\ pump_pc' = "drain"]_vars

\* C17 (out-of-range ids): fail_node(id) and restore_node(id) with id
\* outside [0, N) change no node's running flag, role, term or vote, start
\* no thread, leave the partition configuration as it is and notify nothing.
OutOfRangeNoOp ==
    [][fault_call'.op # "" /\ ~InRange(fault_call'.node_id) =>
          /\ UNCHANGED <<running, state, current_term, voted_for, thread>>
          /\ UNCHANGED <<partitioned, partition_groups>>
          /\ events' = <<>>]_vars

\* C17, its case: the last call was restore_node with an id outside [0, N)
\* while a failed node was waiting to be restored, and nothing was notified
OutOfRangeSeen ==
    /\ fault_call.op = "restore_node"
    /\ ~InRange(fault_call.node_id)
    /\ \E n \in Nodes : ~running[n] /\ current_term[n] > 0
    /\ events = <<>>

\* The step hands the observers a vote_response for the sender of m with
\* vote_granted = flag
Answers(m, flag) ==
    \E e \in Range(events') :
        /\ e.kind = "message_sent"
        /\ e.msg.type = "vote_response"
        /\ e.msg.from = m.to
        /\ e.msg.to = m.from
        /\ e.msg.vote_granted = flag

\* C16 (idempotent vote within a term): a request_vote of term t to a node
\* that has not voted in t is granted and leaves voted_for at the sender;
\* the same request again is granted again; a request of term t from
\* another candidate is refused and leaves voted_for as it is.
IdempotentVote ==
    [][\A m \in DirectMessages :
          pumped' = m /\ m.type = "request_vote" =>
             /\ \/ m.term > current_term[m.to]
                \/ m.term = current_term[m.to] /\ voted_for[m.to] \in {None, m.from}
                => Answers(m, TRUE) /\ voted_for'[m.to] = m.from
             /\ m.term = current_term[m.to] /\ voted_for[m.to] \notin {None, m.from}
                => Answers(m, FALSE) /\ voted_for'[m.to] = voted_for[m.to]]_vars

\* C16, its case: three calls were made; the last was a request_vote of the
\* node's term from a candidate other than the one the node had voted for
\* in that term, it was refused, and the vote is where it was
VoteRefusedSeen ==
    /\ budget.calls = 0
    /\ pumped.type = "request_vote"
    /\ pumped.to = Target
    /\ pumped.term = current_term[Target]
    /\ voted_for[Target] \notin {None, Target, pumped.from}
    /\ <<pumped.term, voted_for[Target]>> \in voted[Target]
    /\ events = <<MessageSent(Msg("vote_response", Target, pumped.from,
                                  pumped.term, FALSE, FALSE))>>
    /\ message_queue[Target] =
          {Msg("vote_response", Target, c, pumped.term, c # pumped.from, FALSE) :
              c \in {pumped.from, voted_for[Target]}}

\* The buffered dict b is the dict q of a node's own message_queue; a
\* heartbeat is buffered under the type "heartbeat"
Buffered(q, b) ==
    /\ b.from = q.from
    /\ b.to = q.to
    /\ b.term = q.term
    /\ b.vote_granted = q.vote_granted
    /\ b.success = q.success
    /\ \/ b.type = q.type
       \/ q.type = "append_entries" /\ b.type = "heartbeat"

\* C9 (all outbound messages flow through the transport): every dict a step
\* adds to a node's own message_queue is appended by that step to the
\* cluster's buffer, the append_entries_response of a processed
\* append_entries included.
OutboundGoesThroughTransport ==
    [][\A n \in Nodes : \A q \in message_queue'[n] \ message_queue[n] :
          \E i \in (Len(message_buffer) + 1) .. Len(message_buffer') :
             Buffered(q, message_buffer'[i])]_vars

\* C21 (only a CANDIDATE counts vote responses): a vote_response, whatever
\* its term and vote_granted, that a FOLLOWER or a LEADER processes leaves
\* the node's votes_received, current_term, state and voted_for as they are.
OnlyCandidateCountsVotes ==
    [][\A m \in DirectMessages :
          pumped' = m /\ m.type = "vote_response" /\ state[m.to] # CANDIDATE =>
             /\ votes_received'[m.to] = votes_received[m.to]
             /\ current_term'[m.to] = current_term[m.to]
             /\ state'[m.to] = state[m.to]
             /\ voted_for'[m.to] = voted_for[m.to]]_vars

\* C21, its case: a LEADER has just processed a granted vote_response of a
\* term larger than its own and is LEADER of its term still
VoteIgnoredSeen ==
    /\ pumped.type = "vote_response"
    /\ pumped.to = Target
    /\ pumped.vote_granted
    /\ pumped.term > current_term[Target]
    /\ state[Target] = LEADER
    /\ <<Target, current_term[Target]>> \in led
    /\ events = <<>>

\* C22 (only a LEADER emits heartbeats): every heartbeat a step hands to
\* the transport with from = n and term = t is emitted while n is LEADER
\* and its current_term is t, whatever the pump thread did between the
\* role test of Node.run and the send.
OnlyLeaderEmitsHeartbeats ==
    [][\A e \in Range(events') :
          e.kind = "message_sent" /\ e.msg.type \in {"heartbeat", "append_entries"} =>
             /\ e.msg \in Range(message_buffer')
             /\ state'[e.msg.from] = LEADER
             /\ current_term'[e.msg.from] = e.msg.term]_vars

\* C23 (restore forces an election): the first tick of the thread that
\* restore started on a failed node begins an election, whatever was
\* delivered to the node in between: the node becomes CANDIDATE and the
\* tick goes on to increment the term.
RestoreForcesElection ==
    [][\A n \in Nodes, k \in Slots :
          thread[n][k].pc = "restored" /\ thread'[n][k].pc # "restored" =>
             /\ thread'[n][k].pc = "election"
             /\ state'[n] = CANDIDATE]_vars

\* The dict m was sent exactly once, and At(m) is its place in the order
\* of sending
Once(m) == Cardinality({i \in 1 .. Len(journal.sent) : journal.sent[i] = m}) = 1

At(m) == CHOOSE i \in 1 .. Len(journal.sent) : journal.sent[i] = m

\* Two dicts of one sender to one destination, each sent once, were
\* delivered in the order they were sent
SendOrderKept ==
    \A i \in 1 .. Len(journal.delivered), j \in 1 .. Len(journal.delivered) :
       LET a == journal.delivered[i]
           b == journal.delivered[j]
       IN  i < j /\ a.from = b.from /\ a.to = b.to /\ Once(a) /\ Once(b) =>
              At(a) < At(b)

\* C24 (transport ordering): the pump takes the whole buffer as its batch,
\* in the order of the appends, and handles the dicts of a batch first to
\* last; and two dicts one node sent to one destination that are both
\* delivered are delivered in the order the node sent them.
TransportOrdering ==
    [][/\ pump_pc = "drain" /\ pump_pc' = "clear" => current_messages' = message_buffer
       /\ pumped' # NoMsg =>
             pumped' = Head(current_messages) /\ current_messages' = Tail(current_messages)
       /\ SendOrderKept']_vars

\* The vote_response that answers the request_vote m, as the claim C25
\* describes it
Response(m) ==
    LET n == m.to
        term == IF m.term > current_term[n] THEN m.term ELSE current_term[n]
        was == IF m.term > current_term[n] THEN None ELSE voted_for[n]
    IN  Msg("vote_response", n, m.from, term,
            m.term >= term /\ was \in {None, m.from}, FALSE)

Appended ==
    SubSeq(message_buffer', Len(message_buffer) + 1, Len(message_buffer'))

\* C26 (beginning an election): an election begun in term k leaves the node
\* CANDIDATE with current_term = k + 1, voted_for = its own id and
\* votes_received = 1, and hands the transport exactly one request_vote of
\* term k + 1 for each of the other N - 1 nodes and none for itself.
ElectionBegun ==
    [][\A n \in Nodes, k \in Slots :
          thread[n][k].pc = "election" /\ thread'[n][k].pc = "loop" =>
             /\ state'[n] = CANDIDATE
             /\ current_term'[n] = thread[n][k].tmp + 1
             /\ voted_for'[n] = n
             /\ votes_received'[n] = 1
             /\ Len(message_buffer') = Len(message_buffer) + node_count - 1
             /\ \A p \in Nodes \ {n} :
                   \E i \in 1 .. Len(Appended) :
                      Appended[i] = Msg("request_vote", n, p, thread[n][k].tmp + 1,
                                        FALSE, FALSE)
             /\ \A i \in 1 .. Len(Appended) : Appended[i].to # n]_vars

\* C27 (one tick loop per node): whatever calls of start, fail_node and
\* restore_node were made, no two threads of one node are inside a tick,
\* an election start or a batch of heartbeats, at the same time.
OneTickLoop ==
    \A n \in Nodes :
       Cardinality({k \in Slots : thread[n][k].pc \in {"election", "heartbeat"}}) <= 1

\* C28 (how a node becomes LEADER): a node becomes LEADER only in the step
\* that handles, while it is CANDIDATE, a granted vote_response of its
\* current_term; beginning an election makes no node LEADER, and the node
\* of a cluster of one is never LEADER and, once CANDIDATE, stays CANDIDATE.
LeaderOnlyByVotes ==
    [][\A n \in Nodes :
          /\ state[n] # LEADER /\ state'[n] = LEADER =>
                /\ state[n] = CANDIDATE
                /\ pumped'.type = "vote_response"
                /\ pumped'.to = n
                /\ pumped'.vote_granted
                /\ pumped'.term = current_term[n]
          /\ node_count = 1 =>
                /\ state'[n] # LEADER
                /\ state[n] = CANDIDATE => state'[n] = CANDIDATE]_vars

\* C28, its case: the node of a cluster of one has begun and finished every
\* election the bound allows, and is CANDIDATE with nobody to ask
SoloCandidateSeen ==
    /\ node_count = 1
    /\ state[0] = CANDIDATE
    /\ current_term[0] = MaxSizesElections
    /\ votes_received[0] = 1
    /\ thread[0][1].pc = "loop"
    /\ message_queue[0] = {}
    /\ led = {}

\* C29 (a CANDIDATE or LEADER has voted for itself): a node that is
\* CANDIDATE or LEADER, and is not in the middle of start_election, has
\* voted_for equal to its own id; and a node that is CANDIDATE or LEADER
\* refuses every request_vote that carries its current_term.
CandidateVotedForItself ==
    [][\A n \in Nodes :
          /\ /\ state'[n] \in {CANDIDATE, LEADER}
             /\ \A k \in Slots : thread'[n][k].pc # "election"
             => voted_for'[n] = n
          /\ /\ pumped'.type = "request_vote"
             /\ pumped'.to = n
             /\ pumped'.term = current_term[n]
             /\ state[n] \in {CANDIDATE, LEADER}
             => \A e \in Range(events') :
                   e.kind = "message_sent" /\ e.msg.type = "vote_response" =>
                      ~e.msg.vote_granted]_vars

=============================================================================
